---------------------------- MODULE Spec2Model ----------------------------
(***************************************************************************)
(* A model of examples/simple_agent.py: the SimpleAgent pipeline           *)
(* chat = append user -> _parse_task -> _plan_steps -> _execute_steps ->   *)
(* _generate_response -> append assistant, its tool registry and its       *)
(* conversation memory.                                                    *)
(*                                                                         *)
(* Python values that come out of json.loads are tagged records            *)
(* [kind, val]; the language model is an environment that answers each     *)
(* _call_llm with any text of a small set, or with a failed API call.      *)
(***************************************************************************)
EXTENDS Integers, Sequences, FiniteSets, TLC

(***************************************************************************)
(* Bounds of the model.                                                    *)
(***************************************************************************)
\* chat is not entered once the history holds this many entries
MaxHistory == 11
\* longest array of steps the planner's text decodes to
MaxSteps == 2
\* chat calls made in the concurrent specification
MaxConcCalls == 2

(***************************************************************************)
(* JSON / Python values.                                                   *)
(***************************************************************************)
JNull == [kind |-> "null", val |-> 0]
JStr(s) == [kind |-> "str", val |-> s]
JNum(n) == [kind |-> "num", val |-> n]
JArr(items) == [kind |-> "arr", val |-> items]
JObj(fields) == [kind |-> "obj", val |-> fields]
EmptyDict == JObj(<<>>)

\* str(v) as an f-string renders it
PyStr(v) ==
  CASE v.kind = "str" -> v.val
    [] v.kind = "num" -> ToString(v.val)
    [] v.kind = "null" -> "None"
    [] v.kind = "arr" -> "[...]"
    [] v.kind = "obj" -> "{...}"

RECURSIVE SetToSeq(_)
SetToSeq(S) ==
  IF S = {} THEN <<>>
  ELSE LET x == CHOOSE y \in S : TRUE IN <<x>> \o SetToSeq(S \ {x})

\* `for step in steps`: the items Python iterates over, or TypeError.  A
\* list yields its elements, a dict its keys, a str its characters (each a
\* str of length one, written "c"); a number or None is not iterable.
PyIter(v) ==
  CASE v.kind = "arr" -> [raised |-> FALSE, items |-> v.val]
    [] v.kind = "obj" ->
         [raised |-> FALSE,
          items |-> [i \in 1..Cardinality(DOMAIN v.val) |->
                       JStr(SetToSeq(DOMAIN v.val)[i])]]
    [] v.kind = "str" ->
         [raised |-> FALSE, items |-> [i \in 1..Len(v.val) |-> JStr("c")]]
    [] OTHER -> [raised |-> TRUE, items |-> <<>>]

(***************************************************************************)
(* Exceptions.                                                             *)
(***************************************************************************)
\* type, the stage of chat it left and the source line that raised it
NoExc == [type |-> "", stage |-> "", line |-> 0]
Exc(type, stage, line) == [type |-> type, stage |-> stage, line |-> line]

(***************************************************************************)
(* The tools (lines 160-188) and the registry (lines 34-38).               *)
(***************************************************************************)
tools == {"search_web", "calculate", "get_weather"}

\* the keyword parameter of each tool's signature
Signature(name) ==
  CASE name = "search_web" -> "query"
    [] name = "calculate" -> "expression"
    [] name = "get_weather" -> "location"

search_web(query) ==
  JObj([result |-> JStr("Simulated search results for: " \o PyStr(query)),
        source |-> JStr("web_search_simulation")])

\* eval(expression), on the arithmetic texts the planner's steps carry here:
\* a value, or an exception that calculate catches.  Expressions that run
\* arbitrary Python are not among the inputs of this model.
eval(expression) ==
  CASE expression = "5*7" -> [raised |-> FALSE, val |-> 35, msg |-> ""]
    [] expression = "1/0" ->
         [raised |-> TRUE, val |-> 0, msg |-> "division by zero"]
    [] OTHER -> [raised |-> TRUE, val |-> 0, msg |-> "invalid syntax"]

calculate(expression) ==
  IF expression.kind # "str"
  THEN JObj([error |-> JStr("eval() arg 1 must be a string, bytes or code object")])
  ELSE LET r == eval(expression.val) IN
       IF r.raised THEN JObj([error |-> JStr(r.msg)])
       ELSE JObj([result |-> JNum(r.val)])

get_weather(location) ==
  JObj([location |-> location,
        temperature |-> JStr("72°F"),
        conditions |-> JStr("Sunny"),
        source |-> JStr("weather_simulation")])

\* self.tools[tool_name](**parameters)
call_tool(tool_name, parameters) ==
  IF parameters.kind # "obj" \/ DOMAIN parameters.val # {Signature(tool_name)}
  THEN [raised |-> TRUE, type |-> "TypeError", val |-> JNull]
  ELSE LET arg == parameters.val[Signature(tool_name)] IN
       [raised |-> FALSE, type |-> "",
        val |-> CASE tool_name = "search_web" -> search_web(arg)
                  [] tool_name = "calculate" -> calculate(arg)
                  [] tool_name = "get_weather" -> get_weather(arg)]

(***************************************************************************)
(* _execute_steps (lines 101-121).                                         *)
(***************************************************************************)
NotFound(tool_name) == "Tool '" \o PyStr(tool_name) \o "' not found"

\* a lookup self.tools[tool_name] with no membership test before it
execute_step_lookup(step) ==
  IF step.kind # "obj" \/ "tool" \notin DOMAIN step.val
  THEN [raised |-> TRUE, line |-> 106, outcome |-> <<>>,
        type |-> IF step.kind = "obj" THEN "KeyError" ELSE "TypeError"]
  ELSE IF "parameters" \notin DOMAIN step.val
  THEN [raised |-> TRUE, line |-> 107, outcome |-> <<>>, type |-> "KeyError"]
  ELSE LET tool_name == step.val.tool
           parameters == step.val.parameters
       IN IF tool_name.kind \in {"arr", "obj"}
          THEN [raised |-> TRUE, line |-> 109, outcome |-> <<>>,
                type |-> "TypeError"]
          ELSE IF tool_name.kind = "str" /\ tool_name.val \in tools
          THEN LET r == call_tool(tool_name.val, parameters) IN
               IF r.raised
               THEN [raised |-> TRUE, line |-> 110, outcome |-> <<>>,
                     type |-> r.type]
               ELSE [raised |-> FALSE, line |-> 0, type |-> "",
                     outcome |-> [step |-> step, result |-> r.val]]
          ELSE [raised |-> TRUE, line |-> 110, outcome |-> <<>>,
                type |-> "KeyError"]

\* one iteration of the loop: the outcome appended, or the exception raised
\* and the line that raised it
execute_step(step) ==
  IF step.kind # "obj" \/ "tool" \notin DOMAIN step.val
  THEN [raised |-> TRUE, line |-> 106, outcome |-> <<>>,
        type |-> IF step.kind = "obj" THEN "KeyError" ELSE "TypeError"]
  ELSE IF "parameters" \notin DOMAIN step.val
  THEN [raised |-> TRUE, line |-> 107, outcome |-> <<>>, type |-> "KeyError"]
  ELSE LET tool_name == step.val.tool
           parameters == step.val.parameters
       IN IF tool_name.kind \in {"arr", "obj"}
          THEN [raised |-> TRUE, line |-> 109, outcome |-> <<>>,
                type |-> "TypeError"]
          ELSE IF tool_name.kind = "str" /\ tool_name.val \in tools
          THEN LET r == call_tool(tool_name.val, parameters) IN
               IF r.raised
               THEN [raised |-> TRUE, line |-> 110, outcome |-> <<>>,
                     type |-> r.type]
               ELSE [raised |-> FALSE, line |-> 0, type |-> "",
                     outcome |-> [step |-> step, result |-> r.val]]
          ELSE [raised |-> FALSE, line |-> 0, type |-> "",
                outcome |-> [step |-> step, error |-> NotFound(tool_name)]]

\* a loop that passes over the steps whose tool is not registered
RECURSIVE execute_loop_skipping(_, _, _)
execute_loop_skipping(items, i, results) ==
  IF i > Len(items)
  THEN [raised |-> FALSE, type |-> "", line |-> 0, results |-> results]
  ELSE LET o == execute_step(items[i]) IN
       IF o.raised
       THEN [raised |-> TRUE, type |-> o.type, line |-> o.line,
             results |-> results]
       ELSE IF "error" \in DOMAIN o.outcome
       THEN execute_loop_skipping(items, i + 1, results)
       ELSE execute_loop_skipping(items, i + 1, Append(results, o.outcome))

\* the loop from item i on; results is the list built so far
RECURSIVE execute_loop(_, _, _)
execute_loop(items, i, results) ==
  IF i > Len(items)
  THEN [raised |-> FALSE, type |-> "", line |-> 0, results |-> results]
  ELSE LET o == execute_step(items[i]) IN
       IF o.raised
       THEN [raised |-> TRUE, type |-> o.type, line |-> o.line,
             results |-> results]
       ELSE execute_loop(items, i + 1, Append(results, o.outcome))

execute_steps(steps) ==
  LET it == PyIter(steps) IN
  IF it.raised
  THEN [raised |-> TRUE, type |-> "TypeError", line |-> 105, results |-> <<>>]
  ELSE execute_loop(it.items, 1, <<>>)

(***************************************************************************)
(* The texts the language model answers with.  A text handed to            *)
(* json.loads is modelled by what json.loads makes of it: a document       *)
(* denoting a value, or text that is no JSON.                              *)
(***************************************************************************)
Doc(v) == [json |-> TRUE, val |-> v]
NotJSON == [json |-> FALSE, val |-> JNull]

json_loads(text) ==
  IF text.json THEN [raised |-> FALSE, val |-> text.val]
  ELSE [raised |-> TRUE, val |-> JNull]

\* the four literals the parse prompt asks for (line 73)
TaskTypes == {"search", "calculate", "weather", "general"}

TaskObj(task_type) ==
  JObj([task_type |-> JStr(task_type), query |-> JStr("5*7"),
        parameters |-> EmptyDict])

TaskDocs ==
  { TaskObj("calculate"), TaskObj("general"), TaskObj("translate"),
    JObj([query |-> JStr("5*7"), parameters |-> EmptyDict]),
    JArr(<<>>) }

StepObj(tool, parameters) ==
  JObj([tool |-> JStr(tool), parameters |-> parameters])

StepDocs ==
  { StepObj("calculate", JObj([expression |-> JStr("5*7")])),
    StepObj("search_web", JObj([query |-> JStr("5*7")])),
    StepObj("get_weather", JObj([location |-> JStr("Paris")])),
    StepObj("translate", EmptyDict),
    StepObj("calculate", JObj([expression |-> JStr("1/0")])),
    StepObj("search_web", EmptyDict),
    JObj([tool |-> JStr("calculate")]) }

PlanArrays == { JArr(s) : s \in UNION { [1..n -> StepDocs] : n \in 0..MaxSteps } }

PlanDocs ==
  PlanArrays \cup
  { EmptyDict,
    StepObj("calculate", JObj([expression |-> JStr("5*7")])),
    JStr(""),
    JNum(7) }

ParseTexts == {NotJSON} \cup { Doc(v) : v \in TaskDocs }
PlanTexts == {NotJSON} \cup { Doc(v) : v \in PlanDocs }
ReplyTexts == {"The answer is 35."}
Messages == {"What's 5 * 7?"}

(***************************************************************************)
(* State.                                                                  *)
(***************************************************************************)
MainThread == "main"
Threads == {"main", "worker"}

VARIABLES
  memory,     \* self.memory
  pc,         \* where each thread is in chat
  message,    \* chat's argument
  task,       \* chat's local task, until _plan_steps has read it
  steps,      \* chat's local steps, until the executor's result is consumed
  result,     \* _execute_steps' list results, until it is consumed
  response,   \* chat's local response, the value it returns
  exc,        \* the exception that left chat
  trace,      \* the stages the current chat call has started, in order
  window,     \* self.memory[-10:] as serialized into the response prompt
  entry_len,  \* len(self.memory) when chat was entered
  owner,      \* for each entry of memory, the number of the call that appended it
  call_id,    \* the number of each thread's current chat call
  nCalls,     \* chat calls made
  nFailed     \* chat calls that raised

globals == <<memory, owner, nCalls>>
vars == <<memory, pc, message, task, steps, result, response, exc, trace,
          window, entry_len, owner, call_id, nCalls, nFailed>>

\* every entry recorded under the role user
Message_as_user(role, content) == [role |-> "user", content |-> content]

Message(role, content) == [role |-> role, content |-> content]

\* the history kept to its last entries on every append
remember_capped(mem, entry) ==
  LET m == Append(mem, entry) IN
  IF Len(m) <= 10 THEN m ELSE SubSeq(m, Len(m) - 9, Len(m))

\* self.memory.append(entry)
remember(mem, entry) == Append(mem, entry)

HistoryWindow == 10

\* self.memory[:10]
history_head(mem) ==
  IF Len(mem) <= HistoryWindow THEN mem ELSE SubSeq(mem, 1, HistoryWindow)

\* self.memory[-10:]
history_tail(mem) ==
  IF Len(mem) <= HistoryWindow THEN mem
  ELSE SubSeq(mem, Len(mem) - HistoryWindow + 1, Len(mem))

Init ==
  /\ memory = <<>>
  /\ owner = <<>>
  /\ nCalls = 0
  /\ nFailed = 0
  /\ pc = [t \in Threads |-> "idle"]
  /\ message = [t \in Threads |-> ""]
  /\ task = [t \in Threads |-> JNull]
  /\ steps = [t \in Threads |-> JNull]
  /\ result = [t \in Threads |-> <<>>]
  /\ response = [t \in Threads |-> ""]
  /\ exc = [t \in Threads |-> NoExc]
  /\ trace = [t \in Threads |-> <<>>]
  /\ window = [t \in Threads |-> <<>>]
  /\ entry_len = [t \in Threads |-> 0]
  /\ call_id = [t \in Threads |-> 0]

\* chat records the failure as an assistant message before it lets it go
Raise_recorded(t, e) ==
  /\ pc' = [pc EXCEPT ![t] = "raised"]
  /\ exc' = [exc EXCEPT ![t] = e]
  /\ task' = [task EXCEPT ![t] = JNull]
  /\ nFailed' = nFailed + 1
  /\ memory' = Append(memory, [role |-> "assistant", content |-> e.type])
  /\ owner' = Append(owner, call_id[t])
  /\ UNCHANGED <<nCalls, message, response, entry_len, call_id>>

\* an exception leaves chat: nothing on the way out catches it (lines 48-57)
Raise(t, e) ==
  /\ pc' = [pc EXCEPT ![t] = "raised"]
  /\ exc' = [exc EXCEPT ![t] = e]
  /\ task' = [task EXCEPT ![t] = JNull]
  /\ nFailed' = nFailed + 1
  /\ UNCHANGED <<globals, message, response, entry_len, call_id>>

\* line 45: chat is entered and records the user message
chat(t, m) ==
  /\ pc[t] \in {"idle", "returned", "raised"}
  /\ memory' = remember(memory, Message("user", m))
  /\ owner' = Append(owner, nCalls + 1)
  /\ nCalls' = nCalls + 1
  /\ call_id' = [call_id EXCEPT ![t] = nCalls + 1]
  /\ pc' = [pc EXCEPT ![t] = "parse"]
  /\ message' = [message EXCEPT ![t] = m]
  /\ task' = [task EXCEPT ![t] = JNull]
  /\ steps' = [steps EXCEPT ![t] = JNull]
  /\ result' = [result EXCEPT ![t] = <<>>]
  /\ response' = [response EXCEPT ![t] = ""]
  /\ exc' = [exc EXCEPT ![t] = NoExc]
  /\ trace' = [trace EXCEPT ![t] = <<"append_user">>]
  /\ window' = [window EXCEPT ![t] = <<>>]
  /\ entry_len' = [entry_len EXCEPT ![t] = Len(memory)]
  /\ UNCHANGED nFailed

\* line 48, lines 64-80
parse_task(t) ==
  /\ pc[t] = "parse"
  /\ trace' = [trace EXCEPT ![t] = Append(@, "parse")]
  /\ UNCHANGED <<steps, result, window>>
  /\ \/ Raise(t, Exc("Exception", "parse", 79))
     \/ \E text \in ParseTexts :
          LET d == json_loads(text) IN
          IF d.raised
          THEN Raise(t, Exc("JSONDecodeError", "parse", 80))
          ELSE /\ task' = [task EXCEPT ![t] = d.val]
               /\ pc' = [pc EXCEPT ![t] = "plan"]
               /\ UNCHANGED <<globals, nFailed, message, response, exc,
                              entry_len, call_id>>

\* line 51, lines 82-99
plan_steps(t) ==
  /\ pc[t] = "plan"
  /\ trace' = [trace EXCEPT ![t] = Append(@, "plan")]
  /\ UNCHANGED <<result, window>>
  /\ \/ Raise(t, Exc("Exception", "plan", 98)) /\ UNCHANGED steps
     \/ \E text \in PlanTexts :
          LET d == json_loads(text) IN
          IF d.raised
          THEN Raise(t, Exc("JSONDecodeError", "plan", 99)) /\ UNCHANGED steps
          ELSE /\ steps' = [steps EXCEPT ![t] = d.val]
               /\ task' = [task EXCEPT ![t] = JNull]
               /\ pc' = [pc EXCEPT ![t] = "execute"]
               /\ UNCHANGED <<globals, nFailed, message, response, exc,
                              entry_len, call_id>>

\* line 54, lines 101-121
execute(t) ==
  /\ pc[t] = "execute"
  /\ trace' = [trace EXCEPT ![t] = Append(@, "execute")]
  /\ UNCHANGED <<steps, window>>
  /\ LET r == execute_steps(steps[t]) IN
     /\ result' = [result EXCEPT ![t] = r.results]
     /\ IF r.raised
        THEN Raise(t, Exc(r.type, "execute", r.line))
        ELSE /\ pc' = [pc EXCEPT ![t] = "respond"]
             /\ UNCHANGED <<globals, nFailed, message, task, response, exc,
                            entry_len, call_id>>

\* line 57, lines 123-134
generate_response(t) ==
  /\ pc[t] = "respond"
  /\ trace' = [trace EXCEPT ![t] = Append(@, "respond")]
  /\ window' = [window EXCEPT ![t] = history_tail(memory)]
  /\ steps' = [steps EXCEPT ![t] = JNull]
  /\ result' = [result EXCEPT ![t] = <<>>]
  /\ \/ Raise(t, Exc("Exception", "respond", 134))
     \/ \E text \in ReplyTexts :
          /\ response' = [response EXCEPT ![t] = text]
          /\ pc' = [pc EXCEPT ![t] = "append"]
          /\ UNCHANGED <<globals, nFailed, message, task, exc, entry_len,
                         call_id>>

\* lines 60-62: the reply is recorded and returned
append_response(t) ==
  /\ pc[t] = "append"
  /\ trace' = [trace EXCEPT ![t] = Append(@, "append_assistant")]
  /\ memory' = remember(memory, Message("assistant", response[t]))
  /\ owner' = Append(owner, call_id[t])
  /\ pc' = [pc EXCEPT ![t] = "returned"]
  /\ UNCHANGED <<nCalls, nFailed, message, task, steps, result, response, exc,
                 window, entry_len, call_id>>

\* one caller at a time, as the loop of lines 199-206 calls chat
call_chat(t) ==
  /\ Len(memory) < MaxHistory
  /\ \E m \in Messages : chat(t, m)

Next ==
  \/ call_chat(MainThread)
  \/ parse_task(MainThread)
  \/ plan_steps(MainThread)
  \/ execute(MainThread)
  \/ generate_response(MainThread)
  \/ append_response(MainThread)

Spec == Init /\ [][Next]_vars

\* chat called from several threads on one agent
thread_chat(t) ==
  /\ nCalls < MaxConcCalls
  /\ \E m \in Messages : chat(t, m)

ConcNext ==
  \E t \in Threads :
    \/ thread_chat(t)
    \/ parse_task(t)
    \/ plan_steps(t)
    \/ execute(t)
    \/ generate_response(t)
    \/ append_response(t)

ConcSpec == Init /\ [][ConcNext]_vars

(***************************************************************************)
(* The claims.                                                             *)
(***************************************************************************)
UserEntry(t) == [role |-> "user", content |-> message[t]]
AssistantEntry(t) == [role |-> "assistant", content |-> response[t]]
FailedAt(t, stages) == pc[t] = "raised" /\ exc[t].stage \in stages

\* a step {tool: text, parameters: ...}
IsStep(s) ==
  /\ s.kind = "obj"
  /\ {"tool", "parameters"} \subseteq DOMAIN s.val
  /\ s.val.tool.kind = "str"

Unregistered(s) == IsStep(s) /\ s.val.tool.val \notin tools

ToolCallRaises(s) ==
  /\ IsStep(s)
  /\ s.val.tool.val \in tools
  /\ call_tool(s.val.tool.val, s.val.parameters).raised

\* the executor has run on an array: it returned, or an exception left it
Executed(t) ==
  /\ pc[t] = "respond" \/ FailedAt(t, {"execute"})
  /\ steps[t].kind = "arr"

\* C1: a chat call that succeeds leaves the history two entries longer, the
\* user message and then the assistant entry holding the reply it returns; a
\* call that fails at parse, plan or execute has still added the user message.
C1_ChatAppends ==
  \A t \in Threads :
    /\ pc[t] = "returned" =>
         /\ Len(memory) = entry_len[t] + 2
         /\ memory[entry_len[t] + 1] = UserEntry(t)
         /\ memory[entry_len[t] + 2] = AssistantEntry(t)
         /\ response[t] \in ReplyTexts
    /\ FailedAt(t, {"parse", "plan", "execute"}) =>
         /\ Len(memory) >= entry_len[t] + 1
         /\ memory[entry_len[t] + 1] = UserEntry(t)

C1_Witness ==
  /\ pc[MainThread] = "returned"
  /\ nFailed >= 1
  /\ entry_len[MainThread] >= 1
  /\ Len(memory) = entry_len[MainThread] + 2

C3_ToolFailureIsolated ==
  \A t \in Threads :
    Executed(t) =>
      \A i \in 1..Len(steps[t].val) :
        ToolCallRaises(steps[t].val[i]) /\ Len(result[t]) >= i - 1 =>
          /\ Len(result[t]) >= i
          /\ result[t][i].step = steps[t].val[i]
          /\ "error" \in DOMAIN result[t][i]

\* C4: a step whose tool is not registered gets exactly the outcome
\* {step, error: "Tool '<name>' not found"}, no exception leaves the executor
\* at that step, and the executor goes on past it.
C4_UnknownToolOutcome ==
  \A t \in Threads :
    Executed(t) =>
      \A i \in 1..Len(steps[t].val) :
        Unregistered(steps[t].val[i]) /\ Len(result[t]) >= i - 1 =>
          /\ Len(result[t]) >= i
          /\ result[t][i] =
               [step |-> steps[t].val[i],
                error |-> "Tool '" \o steps[t].val[i].val.tool.val \o "' not found"]

C4_Witness ==
  /\ pc[MainThread] = "respond"
  /\ steps[MainThread].kind = "arr"
  /\ Len(result[MainThread]) = 2
  /\ Unregistered(steps[MainThread].val[1])
  /\ "result" \in DOMAIN result[MainThread][2]

\* C5: a task that reaches the plan stage is an object whose task_type is one
\* of search, calculate, weather, general.
C5_TaskTypeValidated ==
  \A t \in Threads :
    pc[t] = "plan" =>
      /\ task[t].kind = "obj"
      /\ "task_type" \in DOMAIN task[t].val
      /\ task[t].val.task_type.kind = "str"
      /\ task[t].val.task_type.val \in TaskTypes

\* an array of {tool, parameters} objects
WellFormedPlan(v) ==
  /\ v.kind = "arr"
  /\ \A i \in 1..Len(v.val) :
       /\ v.val[i].kind = "obj"
       /\ {"tool", "parameters"} \subseteq DOMAIN v.val[i].val

\* C6: what the planner hands to the executor, and what the executor has run
\* without failing, is an array of {tool, parameters} objects.
C6_PlanValidated ==
  \A t \in Threads :
    pc[t] \in {"execute", "respond"} => WellFormedPlan(steps[t])

\* C7: once M concurrent chat calls have all succeeded, the history has 2M
\* entries, made of M pairs: a call's user message and right after it the
\* same call's assistant reply.
C7_PairsContiguous ==
  (\A t \in Threads : pc[t] \in {"idle", "returned"}) /\ nFailed = 0 =>
    /\ Len(memory) = 2 * nCalls
    /\ \A k \in 1..nCalls :
         /\ memory[2 * k - 1].role = "user"
         /\ memory[2 * k].role = "assistant"
         /\ owner[2 * k - 1] = owner[2 * k]

StageOrder ==
  <<"append_user", "parse", "plan", "execute", "respond", "append_assistant">>

StagesStarted(t, n) == trace[t] = SubSeq(StageOrder, 1, n)

\* C9: the stages of a chat call start in the fixed order, one after the
\* other; a call that failed started no stage after the failing one, has no
\* reply and added no assistant message.
C9_StagesInOrder ==
  \A t \in Threads :
    /\ pc[t] = "idle" => trace[t] = <<>>
    /\ pc[t] = "parse" => StagesStarted(t, 1)
    /\ pc[t] = "plan" => StagesStarted(t, 2)
    /\ pc[t] = "execute" => StagesStarted(t, 3)
    /\ pc[t] = "respond" => StagesStarted(t, 4)
    /\ pc[t] = "append" => StagesStarted(t, 5)
    /\ pc[t] = "returned" => StagesStarted(t, 6)
    /\ pc[t] \in {"parse", "plan", "execute", "respond", "append"} =>
         /\ Len(memory) = entry_len[t] + 1
         /\ memory[Len(memory)] = UserEntry(t)
    /\ pc[t] = "raised" =>
         /\ exc[t].stage \in {"parse", "plan", "execute", "respond"}
         /\ \E n \in 2..5 : /\ StagesStarted(t, n)
                            /\ StageOrder[n] = exc[t].stage
         /\ response[t] = ""
         /\ Len(memory) = entry_len[t] + 1
         /\ memory[Len(memory)] = UserEntry(t)

C9_Witness ==
  /\ FailedAt(MainThread, {"execute"})
  /\ entry_len[MainThread] >= 2
  /\ memory[entry_len[MainThread]].role = "assistant"

\* C10: the history window in the response prompt is the last min(10, n)
\* entries of the history, in order, n being its length at that moment; the
\* window ends with the call's user message, and the history does not yet
\* hold the call's reply.
C10_WindowIsTail ==
  \A t \in Threads :
    pc[t] = "append" \/ FailedAt(t, {"respond"}) =>
      LET n == Len(memory)
          k == IF n < HistoryWindow THEN n ELSE HistoryWindow
      IN /\ Len(window[t]) = k
         /\ \A i \in 1..k : window[t][i] = memory[n - k + i]
         /\ k >= 1
         /\ window[t][k] = UserEntry(t)
         /\ n = entry_len[t] + 1

C10_Witness ==
  /\ pc[MainThread] = "append"
  /\ Len(memory) = HistoryWindow + 1
  /\ Len(window[MainThread]) = HistoryWindow
  /\ window[MainThread][1] = memory[2]

=============================================================================
